---- MODULE Spec2Model ----
(***************************************************************************)
(* Model of the northrelay Python SDK core: the HTTP transport             *)
(* (utils/http.py), the retry wrapper built on tenacity (utils/retry.py),  *)
(* the client configuration (client.py) and the way resource operations    *)
(* (resources/*.py) invoke the retry wrapper.                              *)
(*                                                                         *)
(* Text is modelled as a sequence of one-character strings so that         *)
(* str.lower(), the substring test and int() are computed, not assumed.    *)
(* Optional[X] is modelled as a tuple: <<>> is None, <<x>> is the value x. *)
(***************************************************************************)
EXTENDS Integers, Naturals, Sequences, FiniteSets, TLC

\* ------------------------------------------------------------------ bounds
\* Largest max_retries a client is constructed with in the model.
MaxAttempts == 5
\* Number of requests one client may have in flight at the same time.
NumTasks == 2
\* Largest number of requests counted for one client object.
MaxRequests == 2

\* ------------------------------------------------------- program constants
DefaultMaxAttempts == 3
DefaultInitialDelay == 1
DefaultMaxDelay == 10
DefaultExponentialBase == 2
ClientExponentialBase == 2

None == <<>>
Some(x) == <<x>>

\* ------------------------------------------------------------------- text
LowerChar(c) ==
    CASE c = "Q" -> "q"
      [] c = "U" -> "u"
      [] c = "O" -> "o"
      [] c = "T" -> "t"
      [] c = "A" -> "a"
      [] c = "H" -> "h"
      [] c = "P" -> "p"
      [] OTHER -> c

\* str.lower()
Lower(s) == [i \in 1..Len(s) |-> LowerChar(s[i])]

\* the Python test  `needle in hay`  for two strings
Contains(needle, hay) ==
    \E i \in 1..(Len(hay) - Len(needle) + 1) :
        SubSeq(hay, i, i + Len(needle) - 1) = needle

Quota == <<"q", "u", "o", "t", "a">>

DigitChars == <<"0", "1", "2", "3", "4", "5", "6", "7", "8", "9">>

IsDigit(c) == \E d \in 1..10 : DigitChars[d] = c

DigitValue(c) == (CHOOSE d \in 1..10 : DigitChars[d] = c) - 1

\* int(s) succeeds (decimal digits, optionally signed)
IsIntLiteral(s) ==
    LET body == IF Len(s) > 0 /\ s[1] = "-" THEN Tail(s) ELSE s
    IN  Len(body) > 0 /\ \A i \in 1..Len(body) : IsDigit(body[i])

RECURSIVE DigitsValue(_)
DigitsValue(s) ==
    IF Len(s) = 0 THEN 0
    ELSE 10 * DigitsValue(SubSeq(s, 1, Len(s) - 1)) + DigitValue(s[Len(s)])

\* int(s) for a string accepted by IsIntLiteral
IntValue(s) ==
    IF s[1] = "-" THEN 0 - DigitsValue(Tail(s)) ELSE DigitsValue(s)

\* str(n) for n >= 0, as used by the f-string  f"HTTP {status_code} error"
RECURSIVE Decimal(_)
Decimal(n) ==
    IF n < 10 THEN <<DigitChars[n + 1]>>
    ELSE Decimal(n \div 10) \o <<DigitChars[(n % 10) + 1]>>

HttpErrorText(status_code) ==
    <<"H", "T", "T", "P", " ">> \o Decimal(status_code)
        \o <<" ", "e", "r", "r", "o", "r">>

\* ------------------------------------------------------------ JSON values
Absent == [t |-> "absent"]
JsonNull == [t |-> "null"]
Str(s) == [t |-> "str", s |-> s]
JsonList(n) == [t |-> "list", n |-> n]

\* -------------------------------------------------------------- responses
\* A response body as the transport sees it: response.text, whether
\* response.json() succeeds ("object": a JSON object, "other": another JSON
\* value, "invalid": json() raises) and, for an object, three of its fields.
Body(json, message, error, errors, text) ==
    [json |-> json, message |-> message, error |-> error,
     errors |-> errors, text |-> text]

MsgQuotaLower == <<"q", "u", "o", "t", "a">>
MsgQuotaUpper == <<"Q", "U", "O", "T", "A">>
MsgQuotaInside == <<"n", "o", " ", "Q", "u", "o", "t", "a", "!">>
MsgSlow == <<"s", "l", "o", "w">>
MsgQuot == <<"q", "u", "o", "t">>
RawObject == <<"{", "}">>
RawQuotaObject == <<"{", "q", "u", "o", "t", "a", "}">>
RawList == <<"[", "]">>

Bodies ==
    { Body("object", Str(m), Absent, Absent, RawObject) :
        m \in {MsgQuotaLower, MsgQuotaUpper, MsgQuotaInside, MsgSlow, MsgQuot} }
    \cup
    { Body("object", Absent, Str(MsgQuotaUpper), Absent, RawObject),
      Body("object", Absent, Str(MsgSlow), JsonList(1), RawObject),
      Body("object", Str(MsgSlow), Str(MsgQuotaLower), JsonList(0), RawObject),
      Body("object", Absent, Absent, Absent, RawObject),
      Body("object", Absent, Absent, Absent, RawQuotaObject),
      Body("object", JsonNull, Absent, Absent, RawObject),
      Body("object", Absent, JsonNull, Absent, RawObject),
      Body("other", Absent, Absent, Absent, RawList),
      Body("invalid", Absent, Absent, Absent, MsgSlow),
      Body("invalid", Absent, Absent, Absent, MsgQuotaInside),
      Body("invalid", Absent, Absent, Absent, <<>>) }

Statuses == {200, 302, 400, 401, 403, 404, 409, 429, 500, 503, 599}

\* values of the retry-after header: absent, empty, integer, HTTP-date
RetryAfterHeaders ==
    {None, Some(<<>>), Some(<<"3", "0">>), Some(<<"W", "e", "d">>)}

\* x-ratelimit-limit, x-ratelimit-remaining, x-ratelimit-reset
RateLimitHeaders ==
    { [limit |-> None, remaining |-> None, reset |-> None],
      [limit |-> Some(<<"1", "0", "0">>), remaining |-> Some(<<"7">>),
       reset |-> Some(<<"9">>)],
      [limit |-> None, remaining |-> Some(<<"0">>), reset |-> None],
      [limit |-> Some(<<"x">>), remaining |-> None, reset |-> None] }

Response(status_code, body, retry_after, rl) ==
    [status_code |-> status_code, body |-> body, retry_after |-> retry_after,
     limit |-> rl.limit, remaining |-> rl.remaining, reset |-> rl.reset]

\* statuses a server sends a retry-after header with
RetryAfterStatuses == {429, 503}

Responses ==
    { Response(st, b, None, rl) :
        st \in Statuses, b \in Bodies, rl \in RateLimitHeaders }
    \cup
    { Response(st, b, ra, rl) :
        st \in RetryAfterStatuses, b \in Bodies, ra \in RetryAfterHeaders,
        rl \in RateLimitHeaders }

\* the HTTP call fails before a response is received (httpx.RequestError)
ConnectFailure == [failure |-> "ConnectError"]

ReadTimeoutFailure == [failure |-> "ReadTimeout"]

\* the request reached the server, which processed it; the response was lost
ResponseLost == [failure |-> "ReadError"]

NetworkFailures == {ConnectFailure, ReadTimeoutFailure, ResponseLost}

IsResponse(x) == "status_code" \in DOMAIN x

\* the server received and processed the request
ReachedServer(x) == IsResponse(x) \/ x = ResponseLost

\* ------------------------------------------------------------- exceptions
\* What a call produces: kind "Success" or the class of the exception
\* raised, with the attributes the exception classes of exceptions.py set.
Outcome(kind, status_code, message, retry_after, errors, cause) ==
    [kind |-> kind, status_code |-> status_code, message |-> message,
     retry_after |-> retry_after, errors |-> errors, cause |-> cause]

Success(response) ==
    Outcome("Success", Some(response.status_code), Absent, None, Absent, None)

\* an exception that is not a NorthRelayError
PythonError(class) == Outcome(class, None, Absent, None, Absent, None)

AuthenticationError(message) ==
    Outcome("Authentication", Some(401), message, None, Absent, None)

ScopeError(message) ==
    Outcome("Scope", Some(403), message, None, Absent, None)

\* self.errors = errors or []
ValidationError(message, errors) ==
    Outcome("Validation", Some(400), message, None,
            IF errors.t = "list" /\ errors.n > 0 THEN errors ELSE JsonList(0),
            None)

QuotaExceededError(message) ==
    Outcome("QuotaExceeded", Some(429), message, None, Absent, None)

RateLimitError(message, retry_after) ==
    Outcome("RateLimit", Some(429), message, retry_after, Absent, None)

NotFoundError(message) ==
    Outcome("NotFound", Some(404), message, None, Absent, None)

ServerError(message, status_code) ==
    Outcome("Server", Some(status_code), message, None, Absent, None)

NetworkErrorText == <<"N", "e", "t">>

NetworkError(cause) ==
    Outcome("Network", None, Str(NetworkErrorText), None, Absent, Some(cause))

ClassifiedKinds ==
    {"Authentication", "Scope", "Validation", "QuotaExceeded", "RateLimit",
     "NotFound", "Server", "Network"}

\* -------------------------------------------------------------- transport
\* truth value of a header read with headers.get(): None and "" are falsy
Truthy(h) == h # None /\ h[1] # <<>>

\* datetime.fromtimestamp(n)
FromTimestamp(n) == [datetime |-> n]

\* int(h) if h else None, for a header whose int() succeeds
HeaderInt(h) == IF Truthy(h) THEN Some(IntValue(h[1])) ELSE None

\* int(h) raises ValueError
HeaderMalformed(h) == Truthy(h) /\ ~IsIntLiteral(h[1])

\* variant: the snapshot is assigned for every response, None without headers
UpdateRateLimitAlways(info, response) ==
    IF Truthy(response.limit) \/ Truthy(response.remaining)
          \/ Truthy(response.reset)
    THEN IF HeaderMalformed(response.limit)
              \/ HeaderMalformed(response.remaining)
              \/ HeaderMalformed(response.reset)
         THEN [info |-> info, raised |-> Some(PythonError("ValueError"))]
         ELSE [info |-> Some([limit |-> HeaderInt(response.limit),
                              remaining |-> HeaderInt(response.remaining),
                              reset |-> IF Truthy(response.reset)
                                        THEN Some(FromTimestamp(
                                                 IntValue(response.reset[1])))
                                        ELSE None]),
               raised |-> None]
    ELSE [info |-> None, raised |-> None]

\* variant: only the fields whose header is present are assigned
UpdateRateLimitMerging(info, response) ==
    LET old == IF info = None
               THEN [limit |-> None, remaining |-> None, reset |-> None]
               ELSE info[1]
    IN  IF Truthy(response.limit) \/ Truthy(response.remaining)
              \/ Truthy(response.reset)
        THEN IF HeaderMalformed(response.limit)
                  \/ HeaderMalformed(response.remaining)
                  \/ HeaderMalformed(response.reset)
             THEN [info |-> info, raised |-> Some(PythonError("ValueError"))]
             ELSE [info |-> Some([limit |-> IF Truthy(response.limit)
                                            THEN HeaderInt(response.limit)
                                            ELSE old.limit,
                                  remaining |->
                                      IF Truthy(response.remaining)
                                      THEN HeaderInt(response.remaining)
                                      ELSE old.remaining,
                                  reset |-> IF Truthy(response.reset)
                                            THEN Some(FromTimestamp(
                                                   IntValue(response.reset[1])))
                                            ELSE old.reset]),
                   raised |-> None]
        ELSE [info |-> info, raised |-> None]

\* HttpClient._update_rate_limit: the new value of _rate_limit_info and the
\* exception raised, if any
UpdateRateLimit(info, response) ==
    IF Truthy(response.limit) \/ Truthy(response.remaining)
          \/ Truthy(response.reset)
    THEN IF HeaderMalformed(response.limit)
              \/ HeaderMalformed(response.remaining)
              \/ HeaderMalformed(response.reset)
         THEN [info |-> info, raised |-> Some(PythonError("ValueError"))]
         ELSE [info |-> Some([limit |-> HeaderInt(response.limit),
                              remaining |-> HeaderInt(response.remaining),
                              reset |-> IF Truthy(response.reset)
                                        THEN Some(FromTimestamp(
                                                 IntValue(response.reset[1])))
                                        ELSE None]),
               raised |-> None]
    ELSE [info |-> info, raised |-> None]

\* the try/except of _handle_error_response that computes error_message
ErrorMessage(response) ==
    LET body == response.body
        fallback == IF body.text # <<>> THEN Str(body.text)
                    ELSE Str(HttpErrorText(response.status_code))
    IN  IF body.json = "object"
        THEN IF body.message # Absent THEN body.message
             ELSE IF body.error # Absent THEN body.error
             ELSE Str(body.text)
        ELSE fallback

\* HttpClient._handle_error_response: the exception it raises
HandleErrorResponse(response) ==
    LET status_code == response.status_code
        body == response.body
        error_message == ErrorMessage(response)
    IN  CASE status_code = 401 -> AuthenticationError(error_message)
          [] status_code = 403 -> ScopeError(error_message)
          [] status_code = 400 ->
                IF body.json = "invalid"
                THEN PythonError("UnboundLocalError")
                ELSE ValidationError(error_message,
                        IF body.json = "object" THEN body.errors ELSE Absent)
          [] status_code = 404 -> NotFoundError(error_message)
          [] status_code = 429 ->
                IF error_message.t # "str"
                THEN PythonError("AttributeError")
                ELSE IF Contains(Quota, Lower(error_message.s))
                THEN QuotaExceededError(error_message)
                ELSE IF HeaderMalformed(response.retry_after)
                THEN PythonError("ValueError")
                ELSE RateLimitError(error_message,
                                    HeaderInt(response.retry_after))
          [] status_code >= 500 /\ status_code < 600 ->
                ServerError(error_message, status_code)
          [] OTHER -> PythonError("HTTPStatusError")

IsSuccess(response) ==
    response.status_code >= 200 /\ response.status_code < 300

\* variant: "except Exception" instead of "except httpx.RequestError"
RequestCatchingEverything(info, answer) ==
    IF ~IsResponse(answer)
    THEN [outcome |-> NetworkError(answer.failure), info |-> info]
    ELSE LET updated == UpdateRateLimit(info, answer)
         IN  IF updated.raised # None
             THEN [outcome |-> NetworkError(updated.raised[1].kind),
                   info |-> updated.info]
             ELSE IF ~IsSuccess(answer)
             THEN [outcome |-> NetworkError(HandleErrorResponse(answer).kind),
                   info |-> updated.info]
             ELSE [outcome |-> Success(answer), info |-> updated.info]

\* variant: the status is classified first, the snapshot updated afterwards
RequestClassifyingFirst(info, answer) ==
    IF ~IsResponse(answer)
    THEN [outcome |-> NetworkError(answer.failure), info |-> info]
    ELSE IF ~IsSuccess(answer)
    THEN [outcome |-> HandleErrorResponse(answer), info |-> info]
    ELSE LET updated == UpdateRateLimit(info, answer)
         IN  IF updated.raised # None
             THEN [outcome |-> updated.raised[1], info |-> updated.info]
             ELSE [outcome |-> Success(answer), info |-> updated.info]

\* HttpClient.request for one answer of the network: the value returned or
\* the exception raised, and the new value of _rate_limit_info
Request(info, answer) ==
    IF ~IsResponse(answer)
    THEN [outcome |-> NetworkError(answer.failure), info |-> info]
    ELSE LET updated == UpdateRateLimit(info, answer)
         IN  IF updated.raised # None
             THEN [outcome |-> updated.raised[1], info |-> updated.info]
             ELSE IF ~IsSuccess(answer)
             THEN [outcome |-> HandleErrorResponse(answer),
                   info |-> updated.info]
             ELSE [outcome |-> Success(answer), info |-> updated.info]

\* HttpClient.get/post/patch/put: request, then response.json()
Verb(info, answer) ==
    LET done == Request(info, answer)
    IN  IF done.outcome.kind = "Success" /\ answer.body.json = "invalid"
        THEN [outcome |-> PythonError("JSONDecodeError"), info |-> done.info]
        ELSE done

\* ------------------------------------------------------------ retry policy
Min(a, b) == IF a <= b THEN a ELSE b
Max(a, b) == IF a >= b THEN a ELSE b

RECURSIVE Pow(_, _)
Pow(b, e) == IF e <= 0 THEN 1 ELSE b * Pow(b, e - 1)

RetryConfig(max_attempts, initial_delay, max_delay, exponential_base) ==
    [max_attempts |-> max_attempts, initial_delay |-> initial_delay,
     max_delay |-> max_delay, exponential_base |-> exponential_base]

DEFAULT_RETRY_CONFIG ==
    RetryConfig(DefaultMaxAttempts, DefaultInitialDelay, DefaultMaxDelay,
                DefaultExponentialBase)

\* NorthRelay.__init__: self._retry_config
NorthRelayRetryConfig(max_retries, retry_delay, max_retry_delay) ==
    RetryConfig(max_retries, retry_delay, max_retry_delay,
                ClientExponentialBase)

\* values of retry_delay and max_retry_delay clients are constructed with
RetryDelays == {1, 2}
MaxRetryDelays == {5, 10}

\* is_retryable_error (utils/retry.py); no caller in the repository
IsRetryableError(exception) ==
    IF exception.kind \in {"Network", "Server"} THEN TRUE
    ELSE IF exception.kind = "RateLimit" THEN exception.retry_after # None
    ELSE FALSE

\* a tenacity Future: the outcome of one attempt of the retry loop
Future(attempt_number, value) ==
    [attempt_number |-> attempt_number, value |-> value]

\* what calling a plain callable that returns an awaitable gives the loop
Coroutine == PythonError("coroutine")

Failed(fut) == fut.value.kind \notin {"Success", "coroutine"}

\* variant: retry=retry_if_exception_type(NorthRelayError)
RetryOnAnyClassifiedError(fut) ==
    Failed(fut) /\ fut.value.kind \in ClassifiedKinds

\* variant: retry=retry_always
RetryAlways(fut) == TRUE

\* variant: retry=retry_if_not_exception_type of the five final kinds
RetryUnlessFinalKind(fut) ==
    Failed(fut)
        /\ fut.value.kind \notin {"Authentication", "Scope", "Validation",
                                   "NotFound", "QuotaExceeded"}

\* variant: retry=retry_if_exception_type((ServerError, RateLimitError))
RetryOnServerAnswer(fut) ==
    Failed(fut) /\ fut.value.kind \in {"Server", "RateLimit"}

\* variant: retry=retry_if_exception_type(Exception), tenacity's default
RetryOnAnyError(fut) ==
    Failed(fut) /\ fut.value.kind # "CancelledError"

\* variant: retry=retry_if_exception_type(BaseException)
RetryOnAnyException(fut) == Failed(fut)

\* retry=retry_if_exception_type((NetworkError, ServerError, RateLimitError))
RetryIfExceptionType(fut) ==
    Failed(fut) /\ fut.value.kind \in {"Network", "Server", "RateLimit"}

\* variant: the stop test compares with > instead of >=
StopAfterAttemptExceeded(attempt_number, max_attempts) ==
    attempt_number > max_attempts

\* stop=stop_after_attempt(max_attempts)
StopAfterAttempt(attempt_number, max_attempts) ==
    attempt_number >= max_attempts

\* variant: the exponent is attempt_number instead of attempt_number - 1
WaitExponentialFromBase(attempt_number, p) ==
    Max(0, Min(p.initial_delay * Pow(p.exponential_base, attempt_number),
               p.max_delay))

\* wait=wait_exponential(multiplier=initial_delay, max=max_delay,
\*                       exp_base=exponential_base), min left at 0
WaitExponential(attempt_number, p) ==
    Max(0, Min(p.initial_delay * Pow(p.exponential_base, attempt_number - 1),
               p.max_delay))

\* variant: a RateLimit error is waited out for its retry_after seconds
WaitHonoringRetryAfter(fut, p) ==
    IF fut.value.kind = "RateLimit" /\ fut.value.retry_after # None
    THEN fut.value.retry_after[1]
    ELSE WaitExponential(fut.attempt_number, p)

\* self.wait(retry_state): wait_exponential reads only the attempt number
\* of the retry state, never the outcome
Wait(fut, p) == WaitExponential(fut.attempt_number, p)

\* variant: reraise=False, tenacity raises its own RetryError
ReraiseWrapped(fut) == PythonError("RetryError")

\* reraise=True: the exception of the last attempt is raised as it is
Reraise(fut) == fut.value

\* the parameters with_retry passes to create_retry_decorator; an argument
\* the caller leaves out (None) takes the default of the signature
WithRetryPolicy(max_attempts, initial_delay, max_delay, exponential_base) ==
    RetryConfig(
        IF max_attempts = None THEN DefaultMaxAttempts ELSE max_attempts[1],
        IF initial_delay = None THEN DefaultInitialDelay ELSE initial_delay[1],
        IF max_delay = None THEN DefaultMaxDelay ELSE max_delay[1],
        IF exponential_base = None THEN DefaultExponentialBase
        ELSE exponential_base[1])

\* ---------------------------------------------------- resource operations
ResourceOps ==
    {"emails.send", "emails.schedule", "emails.validate", "contacts.list",
     "webhooks.get"}

\* the closure handed to with_retry: an async def or a lambda
OpForm(o) == IF o = "contacts.list" THEN "lambda" ELSE "async_def"

\* the keyword arguments each operation passes to with_retry
OpPolicy(o, cfg) ==
    CASE o = "emails.send" ->
            WithRetryPolicy(Some(cfg.max_attempts), Some(cfg.initial_delay),
                            Some(cfg.max_delay), Some(cfg.exponential_base))
      [] o = "emails.schedule" ->
            WithRetryPolicy(Some(cfg.max_attempts), Some(cfg.initial_delay),
                            None, None)
      [] o = "emails.validate" -> WithRetryPolicy(None, None, None, None)
      [] o = "contacts.list" -> WithRetryPolicy(None, None, None, None)
      [] o = "webhooks.get" -> WithRetryPolicy(None, None, None, None)

\* the parsed body has a "data" key
HasData(body) == "data" \in DOMAIN body

\* the closure returns result["data"] instead of the parsed body
IndexesData(o) == o = "webhooks.get"

\* what the closure of operation o makes of its transport call: the
\* subscript raises TypeError on a body that is not a JSON object and
\* KeyError on an object without the key
Closure(o, ran, a) ==
    IF IndexesData(o) /\ ran.outcome.kind = "Success"
    THEN IF a.body.json # "object"
         THEN [outcome |-> PythonError("TypeError"), info |-> ran.info]
         ELSE IF ~HasData(a.body)
         THEN [outcome |-> PythonError("KeyError"), info |-> ran.info]
         ELSE ran
    ELSE ran

\* policies of direct calls  with_retry(func, ...)  by a user of the SDK
DirectPolicies == {RetryConfig(4, 2, 20, 3)}

\* ------------------------------------------------------------------ client
\* str.startswith(prefix)
StartsWith(s, prefix) ==
    Len(s) >= Len(prefix) /\ SubSeq(s, 1, Len(prefix)) = prefix

LivePrefix == <<"n", "r", "_", "l", "i", "v", "e", "_">>
TestPrefix == <<"n", "r", "_", "t", "e", "s", "t", "_">>

\* the messages of the two ValueErrors of NorthRelay.__init__
KeyRequiredText ==
    "API key is required. Get your API key at https://app.northrelay.ca/settings/api-keys"
KeyFormatText ==
    "Invalid API key format. API keys must start with \"nr_live_\" or \"nr_test_\""

\* variant: the prefix is looked for anywhere in the key
ValidateApiKeyAnywhere(api_key) ==
    IF api_key = <<>> THEN Some(KeyRequiredText)
    ELSE IF ~\E i \in 1..Len(api_key) :
               \/ StartsWith(SubSeq(api_key, i, Len(api_key)), LivePrefix)
               \/ StartsWith(SubSeq(api_key, i, Len(api_key)), TestPrefix)
    THEN Some(KeyFormatText)
    ELSE None

\* the two checks at the head of NorthRelay.__init__: the message of the
\* ValueError raised, None when the key passes
ValidateApiKey(api_key) ==
    IF api_key = <<>> THEN Some(KeyRequiredText)
    ELSE IF ~(StartsWith(api_key, LivePrefix)
                \/ StartsWith(api_key, TestPrefix))
    THEN Some(KeyFormatText)
    ELSE None

\* NorthRelay(api_key): the object and what exists once __init__ has ended
NorthRelayInit(api_key) ==
    LET raised == ValidateApiKey(api_key)
    IN  [api_key |-> api_key,
         stage |-> IF raised = None THEN "constructed" ELSE "failed",
         error |-> raised,
         http |-> IF raised = None THEN "open" ELSE "none",
         resources |-> raised = None,
         yielded |-> "nothing",
         body |-> "none",
         requests |-> 0]

\* NorthRelay.__aenter__: what "async with ... as c" binds c to
AEnter(c) == "self"

\* variant: the HTTP client is closed only when the body raised nothing
AExitUnlessRaised(c) ==
    IF c.body = "raised" THEN c.http ELSE "closed"

\* NorthRelay.__aexit__ -> close -> HttpClient.close -> client.aclose():
\* the state of the HTTP client afterwards
AExit(c) == "closed"

KeySuffixes ==
    { <<>>, <<"k">>, <<"t", "e", "s", "t", "1", "2", "3">>,
      <<"n", "r", "_", "l", "i", "v", "e", "_">> }

KeyPrefixes ==
    { <<>>, LivePrefix, TestPrefix,
      <<"n", "r", "_", "l", "i", "v", "e">>,
      <<"N", "R", "_", "L", "I", "V", "E", "_">>,
      <<"n", "r", "_", "p", "r", "o", "d", "_">>,
      <<"i", "n", "v", "a", "l", "i", "d", "_">>,
      <<" ", "n", "r", "_", "t", "e", "s", "t", "_">>,
      <<"n", "r", "_", "t", "e", "s", "t", "-">> }

\* the api_key arguments tried
ApiKeys ==
    { p \o s : p \in KeyPrefixes, s \in KeySuffixes }
        \cup {<<"i", "n", "v", "a", "l", "i", "d", "_", "k", "e", "y">>}

DefaultKey == LivePrefix \o <<"k">>

\* ------------------------------------------------------------------ state
VARIABLES
    retry_config,     \* NorthRelay._retry_config
    rate_limit_info,  \* HttpClient._rate_limit_info
    pc,               \* "idle", "attempting", "sleeping", "succeeded", "raised"
    op,               \* the operation in progress
    form,             \* "async_def" or "lambda": how its closure is written
    policy,           \* the parameters with_retry runs with
    attempt_number,   \* RetryCallState.attempt_number
    outcome,          \* RetryCallState.outcome
    upcoming_sleep,   \* the delay chosen by wait for the sleep in progress
    result,           \* what the call gave its caller: value or exception
    calls,            \* times the operation was run in this invocation
    last,             \* what the latest run of the operation produced
    retried,          \* classes of the outcomes that were followed by a retry
    waited,           \* the delays slept through in this invocation
    answer,           \* the latest answer of the network
    cancelled_at,     \* value of calls when the caller cancelled, else None
    inflight,         \* per task: "idle", or "awaiting" a response
    carrier,          \* rate-limit headers of the latest response having any
    derived,          \* snapshots the responses received so far stand for
    client,           \* the NorthRelay object the program holds
    executions,       \* times the server processed a request of this invocation
    invocations       \* per task: the with_retry invocation it runs

vars ==
    <<retry_config, rate_limit_info, pc, op, form, policy, attempt_number,
      outcome, upcoming_sleep, result, calls, last, retried, waited, answer,
      cancelled_at, inflight, carrier, derived,
      client,
      executions,
      invocations>>

Tasks == 1..NumTasks

Terminal == {"succeeded", "raised"}

\* the invocation was abandoned by its caller (asyncio cancellation)
CancelledError == PythonError("CancelledError")

\* the class of an outcome as far as the retry contract distinguishes them
Class(o) ==
    IF o.kind = "RateLimit" /\ o.retry_after = None
    THEN "RateLimitNoRetryAfter" ELSE o.kind

NoRateLimitHeaders == [limit |-> None, remaining |-> None, reset |-> None]
FullRateLimitHeaders ==
    [limit |-> Some(<<"1", "0", "0">>), remaining |-> Some(<<"7">>),
     reset |-> Some(<<"9">>)]
RemainingOnlyHeaders ==
    [limit |-> None, remaining |-> Some(<<"0">>), reset |-> None]
SecondRateLimitHeaders ==
    [limit |-> Some(<<"3", "0">>), remaining |-> Some(<<"0">>),
     reset |-> Some(<<"3", "0">>)]
MalformedLimitHeaders ==
    [limit |-> Some(<<"x">>), remaining |-> None, reset |-> None]
SlowBody == Body("object", Str(MsgSlow), Absent, Absent, RawObject)
QuotaBody == Body("object", Str(MsgQuotaUpper), Absent, Absent, RawObject)
EmptyObject == Body("object", Absent, Absent, Absent, RawObject)
NotJson == Body("invalid", Absent, Absent, Absent, MsgSlow)
\* the JSON object {"data": {...}}
DataObject ==
    [json |-> "object", message |-> Absent, error |-> Absent,
     errors |-> Absent, text |-> RawObject, data |-> "object"]
Seconds30 == Some(<<"3", "0">>)

\* the answers of the network an attempt of a retried operation may get
AttemptAnswers ==
    { ConnectFailure,
      ResponseLost,
      Response(200, EmptyObject, None, FullRateLimitHeaders),
      Response(200, NotJson, None, NoRateLimitHeaders),
      Response(200, DataObject, None, NoRateLimitHeaders),
      Response(302, EmptyObject, None, NoRateLimitHeaders),
      Response(400, SlowBody, None, NoRateLimitHeaders),
      Response(401, SlowBody, None, NoRateLimitHeaders),
      Response(403, SlowBody, None, NoRateLimitHeaders),
      Response(404, SlowBody, None, NoRateLimitHeaders),
      Response(409, NotJson, None, NoRateLimitHeaders),
      Response(409, SlowBody, None, MalformedLimitHeaders),
      Response(429, QuotaBody, Seconds30, NoRateLimitHeaders),
      Response(429, SlowBody, Seconds30, NoRateLimitHeaders),
      Response(429, SlowBody, None, NoRateLimitHeaders),
      Response(500, SlowBody, None, NoRateLimitHeaders),
      Response(503, SlowBody, None, NoRateLimitHeaders) }

\* a task that runs no invocation of with_retry
IdleInvocation ==
    [pc |-> "idle", op |-> "none", form |-> "async_def",
     policy |-> DEFAULT_RETRY_CONFIG, attempt_number |-> 0, calls |-> 0,
     waited |-> <<>>, outcomes |-> <<>>, upcoming_sleep |-> 0,
     began_while |-> {}]

\* a client constructed with NorthRelay(api_key, max_retries=...,
\* retry_delay=..., max_retry_delay=...), no operation started
Init ==
    /\ retry_config \in
         { NorthRelayRetryConfig(n, d, m) :
             n \in 1..MaxAttempts, d \in RetryDelays, m \in MaxRetryDelays }
    /\ rate_limit_info = None
    /\ pc = "idle"
    /\ op = "none"
    /\ form = "async_def"
    /\ policy = DEFAULT_RETRY_CONFIG
    /\ attempt_number = 0
    /\ outcome = None
    /\ upcoming_sleep = 0
    /\ result = None
    /\ calls = 0
    /\ last = None
    /\ retried = {}
    /\ waited = <<>>
    /\ answer = None
    /\ cancelled_at = None
    /\ inflight = [t \in Tasks |-> "idle"]
    /\ carrier = None
    /\ derived = {}
    /\ client = NorthRelayInit(DefaultKey)
    /\ executions = 0
    /\ invocations = [t \in Tasks |-> IdleInvocation]

\* with_retry up to the first attempt: the retry object is created from the
\* arguments and RetryCallState starts at attempt 1
Begin(o, f, p) ==
    /\ pc \in {"idle", "cancelled"} \cup Terminal
    /\ op' = o
    /\ form' = f
    /\ policy' = p
    /\ attempt_number' = 1
    /\ outcome' = None
    /\ upcoming_sleep' = 0
    /\ result' = None
    /\ calls' = 0
    /\ last' = None
    /\ retried' = {}
    /\ waited' = <<>>
    /\ pc' = "attempting"
    /\ cancelled_at' = None
    /\ executions' = 0
    /\ UNCHANGED <<retry_config, rate_limit_info, answer, inflight, carrier,
                   derived, client,
                   invocations>>

\* a resource operation of the client is called
Invoke ==
    \E o \in ResourceOps : Begin(o, OpForm(o), OpPolicy(o, retry_config))

\* with_retry is called directly with an async function
InvokeDirect ==
    \E p \in DirectPolicies : Begin("with_retry", "async_def", p)

\* one turn of the tenacity loop: the attempt and the decision of iter()
Attempt ==
    \E a \in AttemptAnswers :
        /\ pc = "attempting"
        /\ LET ran == Closure(op, Verb(rate_limit_info, a), a)
               fut == Future(attempt_number,
                             IF form = "async_def" THEN ran.outcome
                             ELSE Coroutine)
               again == RetryIfExceptionType(fut)
               \* an async def is awaited inside the loop; the awaitable a
               \* lambda returns is awaited by with_retry once the loop ends
               awaited == form = "async_def" \/ ~again
           IN  /\ outcome' = Some(fut)
               /\ calls' = IF awaited THEN calls + 1 ELSE calls
               /\ last' = IF awaited THEN Some(ran.outcome) ELSE last
               /\ rate_limit_info' =
                     IF awaited THEN ran.info ELSE rate_limit_info
               /\ answer' = IF awaited THEN Some(a) ELSE answer
               /\ executions' = IF awaited /\ ReachedServer(a)
                                 THEN executions + 1 ELSE executions
               /\ IF ~again
                  THEN /\ result' = Some(IF form = "async_def" THEN fut.value
                                         ELSE ran.outcome)
                       /\ pc' = IF ran.outcome.kind = "Success"
                                THEN "succeeded" ELSE "raised"
                       /\ UNCHANGED <<retried, upcoming_sleep>>
                  ELSE IF StopAfterAttempt(attempt_number, policy.max_attempts)
                  THEN /\ result' = Some(IF Failed(fut) THEN Reraise(fut)
                                         ELSE PythonError("RetryError"))
                       /\ pc' = "raised"
                       /\ UNCHANGED <<retried, upcoming_sleep>>
                  ELSE /\ upcoming_sleep' =
                             Wait(fut, policy)
                       /\ retried' = retried \cup {Class(fut.value)}
                       /\ pc' = "sleeping"
                       /\ UNCHANGED result
        /\ UNCHANGED <<retry_config, op, form, policy, attempt_number, waited,
                       cancelled_at, inflight, carrier, derived, client,
                       invocations>>

\* the sleep between two attempts ends: prepare_for_next_attempt
Sleep ==
    /\ pc = "sleeping"
    /\ waited' = Append(waited, upcoming_sleep)
    /\ attempt_number' = attempt_number + 1
    /\ outcome' = None
    /\ pc' = "attempting"
    /\ UNCHANGED <<retry_config, rate_limit_info, op, form, policy,
                   upcoming_sleep, result, calls, last, retried, answer,
                   cancelled_at, inflight, carrier, derived,
                   client,
                   executions,
                   invocations>>

Next == Invoke \/ InvokeDirect \/ Attempt \/ Sleep

Spec == Init /\ [][Next]_vars

\* the operation always completes and the sleep always ends
FairSpec == Spec /\ WF_vars(Attempt) /\ WF_vars(Sleep)

\* ------------------------------------------------------- transport alone
\* a client constructed with the default retry settings
TransportInit ==
    /\ Init
    /\ retry_config =
         NorthRelayRetryConfig(DefaultMaxAttempts, DefaultInitialDelay,
                               DefaultMaxDelay)

\* HttpClient.request is called once, outside any retry loop
DirectRequest ==
    \E a \in Responses \cup NetworkFailures :
        /\ pc = "idle"
        /\ \E done \in {Request(rate_limit_info, a)} :
               /\ answer' = Some(a)
               /\ last' = Some(done.outcome)
               /\ result' = Some(done.outcome)
               /\ rate_limit_info' = done.info
        /\ UNCHANGED <<retry_config, pc, op, form, policy, attempt_number,
                       outcome, upcoming_sleep, calls, retried, waited,
                       cancelled_at, inflight, carrier, derived,
                       client,
                       executions,
                       invocations>>

TransportNext == DirectRequest

TransportSpec == TransportInit /\ [][TransportNext]_vars

\* ------------------------------------------------------------ cancellation
\* the caller cancels while the operation is awaited: CancelledError is
\* raised inside the attempt and goes through the decision of iter(); the
\* awaitable of a lambda is awaited by with_retry itself, outside the loop
CancelAttempt ==
    /\ pc = "attempting"
    /\ LET fut == Future(attempt_number,
                         IF form = "async_def" THEN CancelledError
                         ELSE Coroutine)
           again == RetryIfExceptionType(fut)
       IN  /\ outcome' = Some(fut)
           /\ calls' = calls + 1
           /\ last' = Some(CancelledError)
           /\ cancelled_at' = Some(calls + 1)
           /\ IF ~again \/ StopAfterAttempt(attempt_number,
                                            policy.max_attempts)
              THEN /\ result' = Some(CancelledError)
                   /\ pc' = "cancelled"
                   /\ UNCHANGED <<retried, upcoming_sleep>>
              ELSE /\ upcoming_sleep' =
                         Wait(fut, policy)
                   /\ retried' = retried \cup {Class(fut.value)}
                   /\ pc' = "sleeping"
                   /\ UNCHANGED result
    /\ UNCHANGED <<retry_config, rate_limit_info, op, form, policy,
                   attempt_number, waited, answer, inflight, carrier,
                   derived,
                   client,
                   executions,
                   invocations>>

\* the caller cancels during the backoff: asyncio.sleep raises
\* CancelledError at "await self.sleep(do)", outside the loop's try
CancelSleep ==
    /\ pc = "sleeping"
    /\ result' = Some(CancelledError)
    /\ cancelled_at' = Some(calls)
    /\ pc' = "cancelled"
    /\ UNCHANGED <<retry_config, rate_limit_info, op, form, policy,
                   attempt_number, outcome, upcoming_sleep, calls, last,
                   retried, waited, answer, inflight, carrier, derived,
                   client,
                   executions,
                   invocations>>

CancelNext == Next \/ CancelAttempt \/ CancelSleep

CancelSpec == Init /\ [][CancelNext]_vars

\* ----------------------------------------- concurrent requests, one client
\* the answers of the network to requests in flight together
ConcurrentAnswers ==
    { ConnectFailure,
      Response(200, EmptyObject, None, NoRateLimitHeaders),
      Response(200, EmptyObject, None, FullRateLimitHeaders),
      Response(200, EmptyObject, None, RemainingOnlyHeaders),
      Response(200, EmptyObject, None, MalformedLimitHeaders),
      Response(404, SlowBody, None, SecondRateLimitHeaders),
      Response(429, SlowBody, Seconds30, FullRateLimitHeaders),
      Response(500, SlowBody, None, RemainingOnlyHeaders) }

\* the three rate-limit headers of a response
HeadersOf(response) ==
    [limit |-> response.limit, remaining |-> response.remaining,
     reset |-> response.reset]

CarriesRateLimit(response) ==
    response.limit # None \/ response.remaining # None
        \/ response.reset # None

\* the integer a header stands for, None when absent or not an integer
HeaderValue(h) ==
    IF h # None /\ h[1] # <<>> /\ IsIntLiteral(h[1])
    THEN Some(IntValue(h[1])) ELSE None

\* the snapshot a set of rate-limit headers stands for
SnapshotOf(h) ==
    [limit |-> HeaderValue(h.limit), remaining |-> HeaderValue(h.remaining),
     reset |-> IF HeaderValue(h.reset) = None THEN None
               ELSE Some(FromTimestamp(HeaderValue(h.reset)[1]))]

WellFormed(h) ==
    ~HeaderMalformed(h.limit) /\ ~HeaderMalformed(h.remaining)
        /\ ~HeaderMalformed(h.reset)

\* a task calls HttpClient.request and waits at "await self.client.request"
Send(t) ==
    /\ pc = "idle"
    /\ inflight[t] = "idle"
    /\ inflight' = [inflight EXCEPT ![t] = "awaiting"]
    /\ UNCHANGED <<retry_config, rate_limit_info, pc, op, form, policy,
                   attempt_number, outcome, upcoming_sleep, result, calls,
                   last, retried, waited, answer, cancelled_at, carrier,
                   derived,
                   client,
                   executions,
                   invocations>>

\* the answer to the request of task t arrives: the rest of request() has
\* no await and runs to its return or raise in one step of the event loop
Receive(t) ==
    \E a \in ConcurrentAnswers :
        /\ pc = "idle"
        /\ inflight[t] = "awaiting"
        /\ LET done == Request(rate_limit_info, a)
               carries == IsResponse(a) /\ CarriesRateLimit(a)
           IN  /\ answer' = Some(a)
               /\ last' = Some(done.outcome)
               /\ result' = Some(done.outcome)
               /\ rate_limit_info' = done.info
               /\ carrier' = IF carries THEN Some(HeadersOf(a)) ELSE carrier
               /\ derived' = IF carries /\ WellFormed(HeadersOf(a))
                             THEN derived \cup {SnapshotOf(HeadersOf(a))}
                             ELSE derived
        /\ inflight' = [inflight EXCEPT ![t] = "idle"]
        /\ UNCHANGED <<retry_config, pc, op, form, policy, attempt_number,
                       outcome, upcoming_sleep, calls, retried, waited,
                       cancelled_at,
                       client,
                       executions,
                       invocations>>

ConcurrentNext == \E t \in Tasks : Send(t) \/ Receive(t)

ConcurrentSpec == TransportInit /\ [][ConcurrentNext]_vars

\* ------------------------------------- concurrent invocations, one client
\* the operations the tasks invoke: a resource operation of either closure
\* form and a direct call of with_retry with its own policy
MultiOps == {"emails.send", "contacts.list", "with_retry"}

MultiPolicy(o, cfg) ==
    IF o = "with_retry" THEN RetryConfig(2, 2, 20, 3) ELSE OpPolicy(o, cfg)

MultiForm(o) == IF o = "with_retry" THEN "async_def" ELSE OpForm(o)

\* the answers of the network to the attempts of concurrent invocations
MultiAnswers ==
    { Response(200, EmptyObject, None, NoRateLimitHeaders),
      Response(200, EmptyObject, None, FullRateLimitHeaders),
      Response(400, SlowBody, None, NoRateLimitHeaders),
      Response(500, SlowBody, None, NoRateLimitHeaders) }

\* variant: the wait is time.sleep whatever loop runs the closure
SleepBlocksAlways(f) == TRUE

\* the wait between attempts holds the event loop: the asyncio loop tenacity
\* uses for an async def waits with asyncio.sleep, the synchronous loop it
\* uses for any other callable waits with time.sleep
SleepBlocks(f) == f # "async_def"

\* no other task holds the event loop, so task t can take a step
LoopFree(t) ==
    \A u \in Tasks \ {t} :
        ~(invocations[u].pc = "sleeping" /\ SleepBlocks(invocations[u].form))

\* variant: one attempt counter serves all invocations of the client
AttemptsSeenShared(t) ==
    LET RECURSIVE Sum(_)
        Sum(T) == IF T = {} THEN 0
                  ELSE LET u == CHOOSE u \in T : TRUE
                       IN  invocations[u].attempt_number + Sum(T \ {u})
    IN  Sum(Tasks)

\* the attempt number the stop test of task t reads: with_retry builds a
\* retry object per invocation and tenacity a RetryCallState per call
AttemptsSeen(t) == invocations[t].attempt_number

\* task t calls with_retry
MultiBegin(t) ==
    \E o \in MultiOps :
        /\ pc = "idle"
        /\ LoopFree(t)
        /\ invocations[t].pc \in {"idle"} \cup Terminal
        /\ invocations' =
             [invocations EXCEPT ![t] =
                [pc |-> "attempting", op |-> o, form |-> MultiForm(o),
                 policy |-> MultiPolicy(o, retry_config),
                 attempt_number |-> 1, calls |-> 0, waited |-> <<>>,
                 outcomes |-> <<>>, upcoming_sleep |-> 0,
                 began_while |->
                    {u \in Tasks \ {t} : invocations[u].pc = "sleeping"}]]
        /\ UNCHANGED <<retry_config, pc, op, form, policy, attempt_number,
                   outcome, upcoming_sleep, result, calls, last, retried,
                   waited, answer, cancelled_at, inflight, carrier, derived,
                   client, executions,
                   rate_limit_info>>

\* one turn of the retry loop of task t
MultiAttempt(t) ==
    \E a \in MultiAnswers :
        /\ pc = "idle"
        /\ LoopFree(t)
        /\ invocations[t].pc = "attempting"
        /\ LET inv == invocations[t]
               ran == Closure(inv.op, Verb(rate_limit_info, a), a)
               fut == Future(inv.attempt_number,
                             IF inv.form = "async_def" THEN ran.outcome
                             ELSE Coroutine)
               again == RetryIfExceptionType(fut)
               stop == StopAfterAttempt(AttemptsSeen(t),
                                        inv.policy.max_attempts)
           IN  /\ rate_limit_info' = ran.info
               /\ invocations' =
                    [invocations EXCEPT ![t] =
                       [inv EXCEPT
                          !.calls = @ + 1,
                          !.outcomes = Append(@, ran.outcome.kind),
                          !.pc = IF ~again
                                 THEN IF ran.outcome.kind = "Success"
                                      THEN "succeeded" ELSE "raised"
                                 ELSE IF stop THEN "raised"
                                 ELSE "sleeping",
                          !.upcoming_sleep =
                              IF again /\ ~stop THEN Wait(fut, inv.policy)
                              ELSE @]]
        /\ UNCHANGED <<retry_config, pc, op, form, policy, attempt_number,
                   outcome, upcoming_sleep, result, calls, last, retried,
                   waited, answer, cancelled_at, inflight, carrier, derived,
                   client, executions>>

\* the wait of task t ends
MultiSleep(t) ==
    /\ pc = "idle"
    /\ LoopFree(t)
    /\ invocations[t].pc = "sleeping"
    /\ invocations' =
         [u \in Tasks |->
            IF u = t
            THEN [invocations[t] EXCEPT
                    !.waited = Append(@, invocations[t].upcoming_sleep),
                    !.attempt_number = @ + 1,
                    !.pc = "attempting"]
            ELSE [invocations[u] EXCEPT !.began_while = @ \ {t}]]
    /\ UNCHANGED <<retry_config, pc, op, form, policy, attempt_number,
                   outcome, upcoming_sleep, result, calls, last, retried,
                   waited, answer, cancelled_at, inflight, carrier, derived,
                   client, executions,
                   rate_limit_info>>

MultiNext ==
    \E t \in Tasks : MultiBegin(t) \/ MultiAttempt(t) \/ MultiSleep(t)

MultiSpec == TransportInit /\ [][MultiNext]_vars

\* ------------------------------------------------- the client's lifetime
\* the program constructs a NorthRelay with some api_key
Construct ==
    \E key \in ApiKeys :
        /\ pc = "idle"
        /\ client.stage \in {"failed", "constructed", "exited", "closed"}
        /\ client' = NorthRelayInit(key)
        /\ UNCHANGED <<retry_config, rate_limit_info, pc, op, form, policy,
                   attempt_number, outcome, upcoming_sleep, result, calls,
                   last, retried, waited, answer, cancelled_at, inflight,
                   carrier, derived,
                       executions,
                       invocations>>

\* a request is made through the client's HTTP client
Use ==
    /\ pc = "idle"
    /\ client.stage \in {"constructed", "entered"}
    /\ client.http = "open"
    /\ client.requests < MaxRequests
    /\ client' = [client EXCEPT !.requests = @ + 1]
    /\ UNCHANGED <<retry_config, rate_limit_info, pc, op, form, policy,
                   attempt_number, outcome, upcoming_sleep, result, calls,
                   last, retried, waited, answer, cancelled_at, inflight,
                   carrier, derived,
                   executions,
                   invocations>>

\* "async with client as c:" awaits __aenter__ and starts the body
Enter ==
    /\ pc = "idle"
    /\ client.stage = "constructed"
    /\ client' = [client EXCEPT !.stage = "entered",
                                !.yielded = AEnter(client),
                                !.body = "running"]
    /\ UNCHANGED <<retry_config, rate_limit_info, pc, op, form, policy,
                   attempt_number, outcome, upcoming_sleep, result, calls,
                   last, retried, waited, answer, cancelled_at, inflight,
                   carrier, derived,
                   executions,
                   invocations>>

\* the body of the async with ends, by completing or by raising
BodyEnds ==
    \E how \in {"returned", "raised"} :
        /\ pc = "idle"
        /\ client.stage = "entered"
        /\ client' = [client EXCEPT !.stage = "leaving", !.body = how]
        /\ UNCHANGED <<retry_config, rate_limit_info, pc, op, form, policy,
                   attempt_number, outcome, upcoming_sleep, result, calls,
                   last, retried, waited, answer, cancelled_at, inflight,
                   carrier, derived,
                       executions,
                       invocations>>

\* the async with awaits __aexit__ on either way out of the body
Exit ==
    /\ pc = "idle"
    /\ client.stage = "leaving"
    /\ client' = [client EXCEPT !.stage = "exited", !.http = AExit(client)]
    /\ UNCHANGED <<retry_config, rate_limit_info, pc, op, form, policy,
                   attempt_number, outcome, upcoming_sleep, result, calls,
                   last, retried, waited, answer, cancelled_at, inflight,
                   carrier, derived,
                   executions,
                   invocations>>

\* the program awaits client.close() itself
Close ==
    /\ pc = "idle"
    /\ client.stage = "constructed"
    /\ client' = [client EXCEPT !.stage = "closed", !.http = "closed"]
    /\ UNCHANGED <<retry_config, rate_limit_info, pc, op, form, policy,
                   attempt_number, outcome, upcoming_sleep, result, calls,
                   last, retried, waited, answer, cancelled_at, inflight,
                   carrier, derived,
                   executions,
                   invocations>>

ClientNext == Construct \/ Use \/ Enter \/ BodyEnds \/ Exit \/ Close

ClientSpec == TransportInit /\ [][ClientNext]_vars

\* ================================================================= claims

Transient == {"Server", "Network"}

NonRetryableKinds ==
    {"Authentication", "Scope", "Validation", "NotFound", "QuotaExceeded"}

\* C1: if every attempt of the operation passed to with_retry fails with a
\* Server or Network error, the operation is run exactly max_attempts times
\* and only then is the error raised.
C1_TransientFailuresExhaust ==
    (pc \in Terminal /\ last # None /\ last[1].kind \in Transient
        /\ retried \subseteq Transient)
    => (pc = "raised" /\ calls = policy.max_attempts)

\* C2: an attempt that failed with a RateLimit error carrying no retry_after
\* is never followed by another attempt.
C2_RateLimitWithoutRetryAfterNotRetried ==
    "RateLimitNoRetryAfter" \notin retried

\* C3: an attempt that fails with Authentication, Scope, Validation, NotFound
\* or QuotaExceeded is the last one; when it is the first attempt the
\* operation has run exactly once.
C3_NonRetryableStopsAtOnce ==
    /\ retried \cap NonRetryableKinds = {}
    /\ (last # None /\ last[1].kind \in NonRetryableKinds)
         => /\ pc = "raised"
            /\ result = last
            /\ (attempt_number = 1 => calls = 1)

C3_Witness ==
    /\ pc = "raised"
    /\ calls = 1
    /\ policy.max_attempts >= 2
    /\ form = "async_def"
    /\ last # None
    /\ last[1].kind = "QuotaExceeded"

\* C4: a successful attempt ends the invocation: its result is returned, no
\* success is ever followed by another attempt, and success on attempt k
\* means exactly k runs of the operation.
C4_SuccessShortCircuits ==
    /\ "Success" \notin retried
    /\ (last # None /\ last[1].kind = "Success")
         => /\ pc = "succeeded"
            /\ result = last
            /\ calls = attempt_number
            /\ calls = Len(waited) + 1

C4_Witness ==
    /\ pc = "succeeded"
    /\ calls = 2
    /\ policy.max_attempts = 3
    /\ retried # {}
    /\ result # None
    /\ result[1].kind = "Success"

\* C5: the error with_retry raises is the error of the last attempt made,
\* unchanged and not wrapped in tenacity's RetryError.
C5_LastErrorRaisedUnchanged ==
    pc = "raised"
    => /\ result # None
       /\ result = last
       /\ result[1].kind # "RetryError"

C5_Witness ==
    /\ pc = "raised"
    /\ calls >= 2
    /\ calls = policy.max_attempts
    /\ "Network" \in retried
    /\ result # None
    /\ result[1].kind = "Server"

ExpectedDelay(k) ==
    Min(policy.initial_delay * Pow(policy.exponential_base, k - 2),
        policy.max_delay)

\* C7: attempt 1 is made without a wait, the wait before attempt k >= 2 is
\* min(initial_delay * exponential_base^(k-2), max_delay), never above
\* max_delay; the policy (5, 1, 10, 2) waits 1, 2, 4, 8.
C7_BackoffSchedule ==
    /\ pc # "idle" => Len(waited) = attempt_number - 1
    /\ calls <= Len(waited) + 1
    /\ \A k \in 2..(Len(waited) + 1) :
          /\ waited[k - 1] = ExpectedDelay(k)
          /\ waited[k - 1] <= policy.max_delay
    /\ pc = "sleeping" => upcoming_sleep = ExpectedDelay(attempt_number + 1)
    /\ (policy = RetryConfig(5, 1, 10, 2) /\ Len(waited) = 4)
          => waited = <<1, 2, 4, 8>>

C7_Witness ==
    /\ policy = RetryConfig(5, 1, 10, 2)
    /\ waited = <<1, 2, 4, 8>>
    /\ calls = 5

\* C8: every invocation ends, succeeded with a result or raised with an
\* error, after at least one and at most max_attempts runs of the operation.
C8_InvocationTerminates ==
    /\ [](calls <= policy.max_attempts)
    /\ [](pc \in Terminal
            => /\ calls >= 1
               /\ result # None
               /\ (pc = "succeeded" <=> result[1].kind = "Success"))
    /\ (pc \in {"attempting", "sleeping"}) ~> (pc \in Terminal)

C8_Witness ==
    /\ pc = "raised"
    /\ calls >= 3
    /\ calls = policy.max_attempts

\* C9: a response with a non-success status is classified by its status
\* code: 401 Authentication, 403 Scope, 400 Validation, 404 NotFound,
\* 429 QuotaExceeded or RateLimit, 500..599 Server with that status code.
C9_ClassifiedByStatusCode ==
    (answer # None /\ last # None /\ IsResponse(answer[1])
        /\ ~IsSuccess(answer[1]))
    => LET st == answer[1].status_code
           o == last[1]
       IN  /\ st = 401 => o.kind = "Authentication"
           /\ st = 403 => o.kind = "Scope"
           /\ st = 400 => o.kind = "Validation"
           /\ st = 404 => o.kind = "NotFound"
           /\ st = 429 => o.kind \in {"QuotaExceeded", "RateLimit"}
           /\ (st >= 500 /\ st <= 599)
                => (o.kind = "Server" /\ o.status_code = Some(st))

\* the text contains "quota" in any mix of upper and lower case
MentionsQuota(text) ==
    \E i \in 1..(Len(text) - 4) :
        \A j \in 1..5 : LowerChar(text[i + j - 1]) = Quota[j]

\* C10: a 429 response is QuotaExceeded exactly when its error message
\* contains "quota" in any case; otherwise it is RateLimit, with retry_after
\* the integer of the retry-after header, None when the header is absent.
C10_QuotaVersusRateLimit ==
    (answer # None /\ last # None /\ IsResponse(answer[1])
        /\ answer[1].status_code = 429)
    => LET r == answer[1]
           o == last[1]
           msg == ErrorMessage(r)
           quota == msg.t = "str" /\ MentionsQuota(msg.s)
       IN  /\ o.kind = "QuotaExceeded" <=> quota
           /\ ~quota => o.kind = "RateLimit"
           /\ (~quota /\ r.retry_after = None) => o.retry_after = None
           /\ (~quota /\ r.retry_after # None
                 /\ IsIntLiteral(r.retry_after[1]))
                => o.retry_after = Some(IntValue(r.retry_after[1]))

\* C11: every 400 response is classified as Validation, carrying the errors
\* list of the body when the body is a JSON object with an errors field and
\* the empty list otherwise, also when the body is another JSON value or is
\* not JSON at all.
C11_ValidationCarriesErrors ==
    (answer # None /\ last # None /\ IsResponse(answer[1])
        /\ answer[1].status_code = 400)
    => LET body == answer[1].body
       IN  /\ last[1].kind = "Validation"
           /\ last[1].errors =
                 IF body.json = "object" /\ body.errors.t = "list"
                 THEN body.errors ELSE JsonList(0)

\* the message the fallback chain gives: the message field of the body, else
\* its error field, else the raw text, else "HTTP <status> error"
ChainMessage(response) ==
    LET body == response.body
    IN  IF body.json = "object" /\ body.message # Absent THEN body.message
        ELSE IF body.json = "object" /\ body.error # Absent THEN body.error
        ELSE IF body.text # <<>> THEN Str(body.text)
        ELSE Str(HttpErrorText(response.status_code))

\* C12: the message of an error classified from a response follows the
\* fallback chain (message field, else error field, else raw text, else
\* "HTTP <status> error"), and a body that is not a JSON object, or that has
\* no message field, never yields a missing or non-string message.
C12_MessageFallbackChain ==
    (answer # None /\ last # None /\ IsResponse(answer[1])
        /\ last[1].kind \in ClassifiedKinds)
    => LET body == answer[1].body
       IN  /\ last[1].message = ChainMessage(answer[1])
           /\ (body.json # "object" \/ body.message = Absent)
                 => last[1].message.t = "str"

\* C13: a call that fails before any response is received raises a Network
\* error whose cause is the transport exception and whose status code is
\* None; no error that stems from a received response is a Network error.
C13_NetworkErrorOnlyWithoutResponse ==
    (answer # None /\ last # None)
    => IF IsResponse(answer[1])
       THEN last[1].kind # "Network"
       ELSE /\ last[1].kind = "Network"
            /\ last[1].cause = Some(answer[1].failure)
            /\ last[1].status_code = None

\* a request timed out and the caller got a Network error caused by it
C13_Witness ==
    /\ answer = Some(ReadTimeoutFailure)
    /\ last # None
    /\ last[1].kind = "Network"
    /\ last[1].cause = Some("ReadTimeout")
    /\ result = last

\* a status that is neither 2xx nor 400, 401, 403, 404, 429 or 5xx
OtherStatus(status_code) ==
    /\ ~(status_code >= 200 /\ status_code <= 299)
    /\ status_code \notin {400, 401, 403, 404, 429}
    /\ ~(status_code >= 500 /\ status_code <= 599)

C15_SuccessOrClassifiedError ==
    (answer # None /\ last # None)
    => /\ last[1].kind \in ClassifiedKinds \cup {"Success"}
       /\ last[1].kind = "Success"
            => (IsResponse(answer[1]) /\ IsSuccess(answer[1]))

\* C16: the snapshot is updated from the headers of every received
\* response before the outcome is decided: after a request that returned, or
\* raised a classified error, from a response carrying rate-limit headers,
\* the snapshot is the one those headers stand for.
C16_SnapshotUpdatedBeforeOutcome ==
    (answer # None /\ last # None /\ IsResponse(answer[1])
        /\ CarriesRateLimit(answer[1])
        /\ last[1].kind \in ClassifiedKinds \cup {"Success"})
    => rate_limit_info = Some(SnapshotOf(HeadersOf(answer[1])))

\* a 429 with rate-limit headers raised RateLimit and left its snapshot
C16_Witness ==
    /\ answer # None
    /\ IsResponse(answer[1])
    /\ answer[1].status_code = 429
    /\ HeadersOf(answer[1]) = FullRateLimitHeaders
    /\ last # None
    /\ last[1].kind = "RateLimit"
    /\ rate_limit_info =
         Some([limit |-> Some(100), remaining |-> Some(7),
               reset |-> Some(FromTimestamp(9))])

\* C17: a response that carries none of the three rate-limit headers leaves
\* the snapshot exactly as it was before the request.
C17_NoHeadersLeaveSnapshot ==
    [][(answer' # None /\ IsResponse(answer'[1])
          /\ ~CarriesRateLimit(answer'[1]))
       => rate_limit_info' = rate_limit_info]_vars

\* after a response with headers, a response without any was received and
\* the snapshot of the first is still there
C17_Witness ==
    /\ answer # None
    /\ IsResponse(answer[1])
    /\ ~CarriesRateLimit(answer[1])
    /\ rate_limit_info # None

\* C18: the snapshot is overwritten, never merged: after any sequence of
\* responses its three fields are the header values of the most recent
\* response that carried at least one rate-limit header, and a field that
\* response did not carry is None even if an earlier response supplied it.
C18_SnapshotOfLatestCarrier ==
    carrier # None => rate_limit_info = Some(SnapshotOf(carrier[1]))

\* C19: under any interleaving of concurrent requests on one client the
\* snapshot is None or the complete snapshot of exactly one received
\* response, that of the last response to write it; it is never a mixture
\* of fields of two responses.
C19_SnapshotOfOneResponse ==
    /\ rate_limit_info = None \/ rate_limit_info[1] \in derived
    /\ (answer # None /\ IsResponse(answer[1])
          /\ CarriesRateLimit(answer[1])
          /\ WellFormed(HeadersOf(answer[1])))
       => rate_limit_info = Some(SnapshotOf(HeadersOf(answer[1])))

\* every task has a request in flight while the snapshot is set and
\* responses with different rate-limit headers have been received
C19_Witness ==
    /\ \A t \in Tasks : inflight[t] = "awaiting"
    /\ rate_limit_info # None
    /\ Cardinality(derived) >= 2

\* C20: once the caller has cancelled an invocation of with_retry, during
\* an attempt or during the backoff delay, the invocation is over: the
\* cancellation is raised to the caller, it is not retried as a failure and
\* the operation is not invoked again.
C20_CancellationEndsInvocation ==
    cancelled_at # None
    => /\ pc = "cancelled"
       /\ result = Some(CancelledError)
       /\ calls = cancelled_at[1]
       /\ "CancelledError" \notin retried

\* cancelled during the backoff after a failed attempt, attempts left
C20_Witness ==
    /\ cancelled_at # None
    /\ pc = "cancelled"
    /\ last # None
    /\ last[1].kind = "Server"
    /\ calls < policy.max_attempts

\* cancelled while an attempt after the first was awaited, attempts left
C20_WitnessDuringAttempt ==
    /\ cancelled_at # None
    /\ pc = "cancelled"
    /\ last = Some(CancelledError)
    /\ calls > 1
    /\ calls < policy.max_attempts

\* C22: constructing NorthRelay succeeds exactly when the api_key is not
\* empty and starts with "nr_live_" or "nr_test_"; an empty key fails with
\* "API key is required", any other key with "Invalid API key format", and
\* a failed construction has created neither the HTTP client nor a resource
\* and made no request.
C22_ApiKeyValidatedFirst ==
    LET key == client.api_key
        prefixed == \/ (Len(key) >= 8 /\ \A i \in 1..8 : key[i] = LivePrefix[i])
                    \/ (Len(key) >= 8 /\ \A i \in 1..8 : key[i] = TestPrefix[i])
    IN  /\ client.stage # "failed" <=> (Len(key) > 0 /\ prefixed)
        /\ (client.stage = "failed" /\ Len(key) = 0)
              => client.error = Some(KeyRequiredText)
        /\ (client.stage = "failed" /\ Len(key) > 0)
              => client.error = Some(KeyFormatText)
        /\ client.stage = "failed"
              => (client.http = "none" /\ ~client.resources
                    /\ client.requests = 0)
        /\ client.stage # "failed"
              => (client.error = None /\ client.http # "none"
                    /\ client.resources)

\* the key "invalid_key" was refused for its format
C22_Witness ==
    /\ client.api_key = <<"i", "n", "v", "a", "l", "i", "d", "_", "k", "e", "y">>
    /\ client.stage = "failed"
    /\ client.error = Some(KeyFormatText)
    /\ client.http = "none"

\* C23: used as an async context manager the client yields itself on entry
\* and, on exit, has closed its HTTP client, whether the body completed or
\* raised.
C23_ContextManagerCloses ==
    /\ client.stage \in {"entered", "leaving"}
          => (client.yielded = "self" /\ client.http = "open")
    /\ client.stage = "exited"
          => (client.yielded = "self" /\ client.http = "closed"
                /\ client.body \in {"returned", "raised"})

\* the body raised after a request was made, and the exit closed the client
C23_Witness ==
    /\ client.stage = "exited"
    /\ client.body = "raised"
    /\ client.requests > 0
    /\ client.http = "closed"

\* C24: with_retry retries a plain callable that returns an awaitable as it
\* retries an async function: an operation of the lambda form whose
\* transport call fails with Server or Network on every attempt has called
\* the transport max_attempts times when the error is raised.
C24_LambdaFormRetried ==
    (form = "lambda" /\ pc \in Terminal /\ last # None
        /\ last[1].kind \in Transient)
    => (pc = "raised" /\ calls = policy.max_attempts
          /\ Len(waited) = policy.max_attempts - 1)

\* C25: a request of emails.send that reached the server but whose response
\* was lost is classified as Network and is issued again while attempts
\* remain, every issue being one more execution by the server, so that one
\* call can be executed up to max_attempts times and never more.
C25_LostResponseReissued ==
    /\ executions <= calls
    /\ calls <= policy.max_attempts
    /\ (answer = Some(ResponseLost) /\ last # None)
          => last[1].kind = "Network"
    /\ (op = "emails.send" /\ answer = Some(ResponseLost) /\ last # None
          /\ calls < policy.max_attempts)
          => pc \in {"sleeping", "attempting"}

\* one call of emails.send was executed by the server max_attempts times,
\* the response lost each time
C25_Witness ==
    /\ op = "emails.send"
    /\ pc = "raised"
    /\ policy.max_attempts >= 3
    /\ executions = policy.max_attempts
    /\ retried = {"Network"}
    /\ answer = Some(ResponseLost)
    /\ last # None
    /\ last[1].kind = "Network"

\* C26: the delay waited after a RateLimit error is the delay of the
\* exponential schedule for that attempt number, whatever the retry_after of
\* the error, so the next attempt may come sooner than retry_after seconds
\* after the 429.
C26_RetryAfterNotHonoured ==
    (pc = "sleeping" /\ outcome # None
        /\ outcome[1].value.kind = "RateLimit")
    => upcoming_sleep =
          Min(policy.initial_delay
                * Pow(policy.exponential_base, attempt_number - 1),
              policy.max_delay)

\* a 429 asking for 30 seconds is followed by a shorter wait
C26_Witness ==
    /\ pc = "sleeping"
    /\ last # None
    /\ last[1].kind = "RateLimit"
    /\ last[1].retry_after = Some(30)
    /\ upcoming_sleep < 30

NotAnInteger(h) == h # None /\ h[1] # <<>> /\ ~IsIntLiteral(h[1])

\* the response with every such header taken out
WithoutMalformedHeaders(r) ==
    [r EXCEPT !.limit = IF NotAnInteger(@) THEN None ELSE @,
              !.remaining = IF NotAnInteger(@) THEN None ELSE @,
              !.reset = IF NotAnInteger(@) THEN None ELSE @,
              !.retry_after = IF NotAnInteger(@) THEN None ELSE @]

\* C28: a malformed rate-limit header never changes the outcome of a
\* request: with a non-integer x-ratelimit-limit, x-ratelimit-remaining,
\* x-ratelimit-reset or retry-after the request still returns the success
\* response or raises the classified error its status code determines, as
\* it would without that header, and the snapshot stays well formed.
C28_MalformedHeaderHarmless ==
    (answer # None /\ last # None /\ IsResponse(answer[1])
        /\ WithoutMalformedHeaders(answer[1]) # answer[1])
    => /\ last[1] = Request(None, WithoutMalformedHeaders(answer[1])).outcome
       /\ IsSuccess(answer[1]) => last[1].kind = "Success"
       /\ rate_limit_info # None
            => \A f \in {"limit", "remaining"} :
                  rate_limit_info[1][f] = None
                      \/ rate_limit_info[1][f][1] \in Int

\* C29: the snapshot is None exactly as long as no response carrying at
\* least one rate-limit header has been received by the client: None after
\* construction, unchanged by connection failures, never None again once
\* a response with such a header has come.
C29_NoneUntilFirstCarrier ==
    rate_limit_info = None <=> carrier = None

\* C21: while one invocation of with_retry waits out its backoff delay, every
\* other task on the same client can take its next step: start an operation,
\* make an attempt, or end its own wait; the delay never holds the others.
C21_BackoffDoesNotBlock ==
    \A u \in Tasks :
        invocations[u].pc = "sleeping" =>
            \A t \in Tasks \ {u} :
                /\ invocations[t].pc \in {"idle"} \cup Terminal
                        => ENABLED MultiBegin(t)
                /\ invocations[t].pc = "attempting" => ENABLED MultiAttempt(t)
                /\ invocations[t].pc = "sleeping" => ENABLED MultiSleep(t)

\* a task started an operation while another was waiting, made two attempts
\* and succeeded, and the other is still in that same wait
C21_Witness ==
    \E u \in Tasks : \E t \in Tasks \ {u} :
        /\ invocations[u].pc = "sleeping"
        /\ u \in invocations[t].began_while
        /\ invocations[t].calls >= 2
        /\ invocations[t].pc = "succeeded"


\* C30: concurrent invocations of with_retry keep independent retry state:
\* the number of attempts of each and the delays between them follow from
\* its own policy and the outcomes of its own attempts alone, whatever the
\* other invocations on the client do.
C30_IndependentRetryState ==
    \A t \in Tasks :
        LET inv == invocations[t]
            n == Len(inv.outcomes)
            retryable(k) == /\ inv.form = "async_def"
                            /\ inv.outcomes[k] \in {"Network", "Server",
                                                      "RateLimit"}
        IN  inv.pc # "idle" =>
              /\ inv.calls = n
              /\ inv.calls <= inv.policy.max_attempts
              /\ \A k \in 1..(n - 1) : retryable(k)
              /\ Len(inv.waited) =
                    IF inv.pc = "attempting" THEN n ELSE Max(0, n - 1)
              /\ \A k \in 1..Len(inv.waited) :
                    inv.waited[k] = WaitExponential(k, inv.policy)
              /\ inv.pc = "sleeping"
                    => retryable(n) /\ n < inv.policy.max_attempts
              /\ inv.pc = "raised"
                    => \/ ~retryable(n)
                       \/ n = inv.policy.max_attempts
              /\ inv.pc = "succeeded" => inv.outcomes[n] = "Success"

\* two invocations with different policies both exhausted their attempts
\* against a failing server, each after its own number of attempts and its
\* own delays
C30_Witness ==
    \E t \in Tasks : \E u \in Tasks \ {t} :
        /\ invocations[t].pc = "raised"
        /\ invocations[u].pc = "raised"
        /\ invocations[t].calls = 3
        /\ invocations[t].waited = <<1, 2>>
        /\ invocations[u].calls = 2
        /\ invocations[u].waited = <<2>>


====
